---- MODULE Spec2Model ----
(***************************************************************************)
(* ContactBookFastAPI: the contact repository layer                        *)
(* (src/src/repository/contacts.py) over the contacts table                *)
(* (src/src/entity/models.py), as a state machine.                         *)
(*                                                                         *)
(* Strings are sequences of one-character strings so that ILIKE can be     *)
(* computed; dates are records [year, month, day].                         *)
(***************************************************************************)
EXTENDS Integers, Sequences, FiniteSets, TLC

VARIABLES
    contacts,   \* the committed rows of table `contacts`
    nextId,     \* next value of the autoincrement primary key
    last,       \* the last completed repository call: its arguments, its result and
                \* the table as it was when the call began
    req,        \* SpecConc only: the requests in flight, one per worker
    users,      \* Credential Store: the user record of each email, None when absent
    cache,      \* Session Cache: the user snapshot cached for each email, or None
    now,        \* the clock the Token Service reads
    issued,     \* the tokens the Token Service has minted so far
    superseded  \* the refresh tokens once stored for a user and since replaced

vars == <<contacts, nextId, last, req, users, cache, now, issued, superseded>>

\* the state of the authentication subsystem
auth == <<users, cache, now, issued, superseded>>

AuthEmails == {"u1", "u2"}

-----------------------------------------------------------------------------
(* Bounds and input domains *)

MaxContacts == 2        \* rows ever inserted in one run (ids 1..MaxContacts)

Users == {1, 2}
Ids == 1..(MaxContacts + 1)      \* one id beyond those ever assigned

Date(y, m, d) == [year |-> y, month |-> m, day |-> d]

\* The values request bodies are built from.  Name and surname vary together, and
\* so do phone and birthday, so that every field takes two values.
PersonS ==
    {[name |-> <<"J", "o">>, surname |-> <<"D", "o">>],
     [name |-> <<"a">>, surname |-> <<"e">>]}
EmailS == {<<"a", "@", "x">>, <<"B", "@", "x">>}
ReachS ==
    {[phone |-> <<"1">>, birthday |-> Date(2024, 1, 2)],
     [phone |-> <<"2">>, birthday |-> Date(2024, 12, 20)]}

\* ContactSchema / ContactUpdate: the five fields a request body carries
ContactSchema ==
    {[name |-> p.name, surname |-> p.surname, email |-> e, phone |-> r.phone,
      birthday |-> r.birthday] : p \in PersonS, e \in EmailS, r \in ReachS}

ContactUpdate == ContactSchema

Fields == {"name", "surname", "email", "phone", "birthday"}

\* body.model_dump(): the body as a field -> value mapping
model_dump(body) == [f \in Fields |-> body[f]]

-----------------------------------------------------------------------------
(* Rows and results *)

\* Contact built with the owner left at a default instead of current_user
Contact_DefaultOwner(id, user, body) ==
    [id |-> id, user |-> 1, name |-> body.name, surname |-> body.surname,
     email |-> body.email, phone |-> body.phone, birthday |-> body.birthday]

\* Contact built with name and surname crossed
Contact_CrossedNames(id, user, body) ==
    [id |-> id, user |-> user, name |-> body.surname, surname |-> body.name,
     email |-> body.email, phone |-> body.phone, birthday |-> body.birthday]

\* Contact(**body.model_dump(), user=current_user), with the id the store assigns
Contact(id, user, body) ==
    [id |-> id, user |-> user, name |-> model_dump(body)["name"],
     surname |-> model_dump(body)["surname"], email |-> model_dump(body)["email"],
     phone |-> model_dump(body)["phone"], birthday |-> model_dump(body)["birthday"]]

None == [kind |-> "None"]
Found(row) == [kind |-> "Contact", row |-> row]

\* the text of the store's error, str(e)
IntegrityErrorText == "IntegrityError: UNIQUE constraint failed: contacts.email"
StaleDataErrorText == "StaleDataError: UPDATE statement expected to update 1 row(s); 0 were matched"
OperationalErrorText == "OperationalError: connection to the store lost"

\* raise HTTPException(status_code=500, detail=str(e))
HTTPException(status, detail) ==
    [kind |-> "HTTPException", status_code |-> status, detail |-> detail]

\* an exception the repository function does not catch
Raised(text) == [kind |-> "Raised", text |-> text]

NoBody == [none |-> TRUE]

\* no user has signed up, nothing is cached, no token has been minted
NoAuth ==
    /\ users = [e \in AuthEmails |-> None]
    /\ cache = [e \in AuthEmails |-> None]
    /\ now = 0
    /\ issued = {}
    /\ superseded = {}
Idle == [op |-> "idle"]

\* the select without the owner in its predicate: filter_by(id=contact_id)
SelectOwned_AnyOwner(table, contact_id, current_user) ==
    IF \E c \in table : c.id = contact_id
    THEN Found(CHOOSE c \in table : c.id = contact_id)
    ELSE None

\* scalar_one_or_none() of select(Contact).filter_by(id=contact_id, user=current_user)
SelectOwned(table, contact_id, current_user) ==
    IF \E c \in table : c.id = contact_id /\ c.user = current_user
    THEN Found(CHOOSE c \in table : c.id = contact_id /\ c.user = current_user)
    ELSE None

\* Contact.email is unique=True: the store refuses a table with two rows of one email
UniqueOk(table) ==
    \A c, d \in table : c.email = d.email => c = d

-----------------------------------------------------------------------------
(* The store: what db.commit() does with the session's pending change.     *)
(* Each returns [ok, table, text]: the committed table, or the table as it *)
(* was and the error text when the transaction fails.  `fault` is a store  *)
(* failure unrelated to the data (connection lost).                        *)

Committed(table) == [ok |-> TRUE, table |-> table, text |-> ""]
Failed(table, text) == [ok |-> FALSE, table |-> table, text |-> text]

\* an insert into a table whose email column is not unique
commit_insert_NoUnique(table, row, fault) ==
    IF fault THEN Failed(table, OperationalErrorText)
    ELSE Committed(table \cup {row})

\* db.add(contact); await db.commit()
commit_insert(table, row, fault) ==
    IF fault THEN Failed(table, OperationalErrorText)
    ELSE IF ~UniqueOk(table \cup {row}) THEN Failed(table, IntegrityErrorText)
    ELSE Committed(table \cup {row})

\* an update written without the unique index on email
commit_update_NoUnique(table, loaded, dump, fault) ==
    LET dirty == {f \in DOMAIN dump : dump[f] # loaded[f]}
        target == {c \in table : c.id = loaded.id}
        written == {[f \in DOMAIN c |-> IF f \in dirty THEN dump[f] ELSE c[f]] : c \in target}
    IN  IF fault THEN Failed(table, OperationalErrorText)
        ELSE IF target = {} THEN Failed(table, StaleDataErrorText)
        ELSE Committed((table \ target) \cup written)

\* an update that leaves the phone as it was (a partial patch)
commit_update_KeepsPhone(table, loaded, dump, fault) ==
    LET dirty == {f \in DOMAIN dump : dump[f] # loaded[f]} \ {"phone"}
        target == {c \in table : c.id = loaded.id}
        written == {[f \in DOMAIN c |-> IF f \in dirty THEN dump[f] ELSE c[f]] : c \in target}
        table2 == (table \ target) \cup written
    IN  IF fault THEN Failed(table, OperationalErrorText)
        ELSE IF target = {} THEN Failed(table, StaleDataErrorText)
        ELSE IF ~UniqueOk(table2) THEN Failed(table, IntegrityErrorText)
        ELSE Committed(table2)

\* for key, value in contact.model_dump().items(): setattr(...); await db.commit()
\* `loaded` is the row as the select read it.  The unit of work writes the
\* attributes whose value differs from the loaded one to the row with that id.
commit_update(table, loaded, dump, fault) ==
    LET dirty == {f \in DOMAIN dump : dump[f] # loaded[f]}
        target == {c \in table : c.id = loaded.id}
        written == {[f \in DOMAIN c |-> IF f \in dirty THEN dump[f] ELSE c[f]] : c \in target}
        table2 == (table \ target) \cup written
    IN  IF fault THEN Failed(table, OperationalErrorText)
        ELSE IF target = {} THEN Failed(table, StaleDataErrorText)
        ELSE IF ~UniqueOk(table2) THEN Failed(table, IntegrityErrorText)
        ELSE Committed(table2)

\* a delete whose predicate is the owner instead of the id
commit_delete_ByOwner(table, loaded, fault) ==
    IF fault THEN Failed(table, OperationalErrorText)
    ELSE Committed({c \in table : c.user # loaded.user})

\* await db.delete(contact); await db.commit()
\* (a DELETE that matches no row any more is not an error)
commit_delete(table, loaded, fault) ==
    IF fault THEN Failed(table, OperationalErrorText)
    ELSE Committed({c \in table : c.id # loaded.id})

\* await db.refresh(contact): the row of that id as the store holds it now
refresh(table, id) == CHOOSE c \in table : c.id = id

-----------------------------------------------------------------------------------------------------------------------------------------------------
(* The repository functions.  Each returns [table, nextId, res].  `fault`   *)
(* says where the store fails for a reason unrelated to the data:          *)
(* "none", at "commit", or at the "refresh" that follows the commit.       *)

FaultS == {"none", "commit", "refresh"}

Outcome(table, nid, res) == [table |-> table, nextId |-> nid, res |-> res]

get_contact(table, nid, contact_id, current_user) ==
    Outcome(table, nid, SelectOwned(table, contact_id, current_user))

\* try: add, commit, refresh, return contact
\* except SQLAlchemyError: rollback, raise HTTPException(500, str(e))
create_contact(table, nid, body, current_user, fault) ==
    LET contact == Contact(nid, current_user, body)
        c == commit_insert(table, contact, fault = "commit")
    IN  IF ~c.ok THEN Outcome(c.table, nid, HTTPException(500, c.text))
        ELSE IF fault = "refresh"
             THEN Outcome(c.table, nid + 1, HTTPException(500, OperationalErrorText))
        ELSE Outcome(c.table, nid + 1, Found(refresh(c.table, nid)))

\* update_contact from `if existing_contact:` on; existing_contact is what the
\* select returned
update_found(table, nid, existing_contact, contact, fault) ==
    IF existing_contact # None
    THEN LET c == commit_update(table, existing_contact.row, model_dump(contact),
                                fault = "commit")
         IN  IF ~c.ok THEN Outcome(c.table, nid, Raised(c.text))
             ELSE IF fault = "refresh" THEN Outcome(c.table, nid, Raised(OperationalErrorText))
             ELSE Outcome(c.table, nid, Found(refresh(c.table, existing_contact.row.id)))
    ELSE Outcome(table, nid, None)

update_contact(table, nid, contact_id, contact, current_user, fault) ==
    update_found(table, nid, SelectOwned(table, contact_id, current_user), contact, fault)

\* delete_contact from `if contact:` on; contact is what the select returned
delete_found(table, nid, contact, fault) ==
    IF contact # None
    THEN LET c == commit_delete(table, contact.row, fault = "commit")
         IN  IF ~c.ok THEN Outcome(c.table, nid, Raised(c.text))
             ELSE Outcome(c.table, nid, contact)
    ELSE Outcome(table, nid, None)

delete_contact(table, nid, contact_id, current_user, fault) ==
    delete_found(table, nid, SelectOwned(table, contact_id, current_user), fault)

-----------------------------------------------------------------------------
(* Spec: requests served one at a time, the store available *)

Call(op, user, id, body, out) ==
    /\ contacts' = out.table
    /\ nextId' = out.nextId
    /\ last' = [op |-> op, user |-> user, id |-> id, body |-> body, res |-> out.res,
                before |-> contacts]
    /\ UNCHANGED <<req, auth>>

GetContact ==
    \E u \in Users, i \in Ids :
        Call("get_contact", u, i, NoBody, get_contact(contacts, nextId, i, u))

CreateContact ==
    \E u \in Users, b \in ContactSchema :
        /\ nextId <= MaxContacts
        /\ Call("create_contact", u, 0, b, create_contact(contacts, nextId, b, u, "none"))

UpdateContact ==
    \E u \in Users, i \in Ids, b \in ContactUpdate :
        Call("update_contact", u, i, b, update_contact(contacts, nextId, i, b, u, "none"))

DeleteContact ==
    \E u \in Users, i \in Ids :
        Call("delete_contact", u, i, NoBody, delete_contact(contacts, nextId, i, u, "none"))

Init ==
    /\ contacts = {}
    /\ nextId = 1
    /\ last = Idle
    /\ req = <<>>
    /\ NoAuth

Next == GetContact \/ CreateContact \/ UpdateContact \/ DeleteContact

Spec == Init /\ [][Next]_vars

-----------------------------------------------------------------------------
(* SpecConc: two requests in flight.  A request reads (select) in one step  *)
(* and writes (commit, refresh) in a later one; the other request may run   *)
(* in between, and the store may fail.                                      *)

Workers == {1, 2}

\* the bodies concurrent requests carry: both persons, both emails
ConcBodyS == {b \in ContactSchema : b.phone = <<"1">>}

Free(w) == req[w].pc \in {"idle", "done"}

PendingCreates == Cardinality({w \in Workers : req[w].pc = "added"})

\* create_contact up to db.add(contact)
BeginCreate(w) ==
    /\ Free(w)
    /\ nextId + PendingCreates <= MaxContacts
    /\ \E u \in Users, b \in ConcBodyS :
          req' = [req EXCEPT ![w] = [pc |-> "added", op |-> "create_contact",
                                     user |-> u, body |-> b]]
    /\ UNCHANGED <<contacts, nextId, last, auth>>

\* create_contact from await db.commit() on
FinishCreate(w) ==
    /\ req[w].pc = "added"
    /\ \E fault \in FaultS :
          LET out == create_contact(contacts, nextId, req[w].body, req[w].user, fault)
          IN  /\ contacts' = out.table
              /\ nextId' = out.nextId
              /\ req' = [req EXCEPT ![w] = [pc |-> "done", res |-> out.res]]
    /\ UNCHANGED <<last, auth>>

\* update_contact up to scalar_one_or_none()
BeginUpdate(w) ==
    /\ Free(w)
    /\ \E u \in Users, i \in Ids, b \in ConcBodyS :
          req' = [req EXCEPT ![w] = [pc |-> "selected", op |-> "update_contact",
                                     body |-> b,
                                     loaded |-> SelectOwned(contacts, i, u)]]
    /\ UNCHANGED <<contacts, nextId, last, auth>>

\* update_contact from `if existing_contact:` on
FinishUpdate(w) ==
    /\ req[w].pc = "selected"
    /\ req[w].op = "update_contact"
    /\ \E fault \in FaultS :
          LET out == update_found(contacts, nextId, req[w].loaded, req[w].body, fault)
          IN  /\ contacts' = out.table
              /\ nextId' = out.nextId
              /\ req' = [req EXCEPT ![w] = [pc |-> "done", res |-> out.res]]
    /\ UNCHANGED <<last, auth>>

\* delete_contact up to scalar_one_or_none()
BeginDelete(w) ==
    /\ Free(w)
    /\ \E u \in Users, i \in Ids :
          req' = [req EXCEPT ![w] = [pc |-> "selected", op |-> "delete_contact",
                                     body |-> NoBody,
                                     loaded |-> SelectOwned(contacts, i, u)]]
    /\ UNCHANGED <<contacts, nextId, last, auth>>

\* delete_contact from `if contact:` on
FinishDelete(w) ==
    /\ req[w].pc = "selected"
    /\ req[w].op = "delete_contact"
    /\ \E fault \in FaultS \ {"refresh"} :
          LET out == delete_found(contacts, nextId, req[w].loaded, fault)
          IN  /\ contacts' = out.table
              /\ nextId' = out.nextId
              /\ req' = [req EXCEPT ![w] = [pc |-> "done", res |-> out.res]]
    /\ UNCHANGED <<last, auth>>

InitConc ==
    /\ contacts = {}
    /\ nextId = 1
    /\ last = Idle
    /\ req = [w \in Workers |-> [pc |-> "idle"]]
    /\ NoAuth

NextConc ==
    \E w \in Workers :
        \/ BeginCreate(w)
        \/ FinishCreate(w)
        \/ BeginUpdate(w)
        \/ FinishUpdate(w)
        \/ BeginDelete(w)
        \/ FinishDelete(w)

SpecConc == InitConc /\ [][NextConc]_vars

-----
(* get_contacts: the filtered, paginated list *)

MaxRows == 3        \* rows of the table a list call reads
MaxLimit == 2       \* largest limit passed
MaxOffset == 2      \* largest offset passed

\* str.lower() on the letters the model uses
LowerChar(ch) ==
    CASE ch = "J" -> "j"
      [] ch = "D" -> "d"
      [] ch = "B" -> "b"
      [] ch = "O" -> "o"
      [] ch = "E" -> "e"
      [] OTHER -> ch

Lower(str) == [k \in 1..Len(str) |-> LowerChar(str[k])]

\* SQL LIKE: % matches any run of characters, _ any one character
RECURSIVE Like(_, _)
Like(str, pattern) ==
    IF pattern = <<>> THEN str = <<>>
    ELSE IF Head(pattern) = "%"
         THEN Like(str, Tail(pattern)) \/ (str # <<>> /\ Like(Tail(str), pattern))
    ELSE IF Head(pattern) = "_"
         THEN str # <<>> /\ Like(Tail(str), Tail(pattern))
    ELSE str # <<>> /\ Head(str) = Head(pattern) /\ Like(Tail(str), Tail(pattern))

\* column.ilike(pattern): LIKE on the lower-cased operands
ilike(str, pattern) == Like(Lower(str), Lower(pattern))

\* an optional str argument: <<>> is None, <<s>> is the string s
NoFilter == <<>>
Some(str) == <<str>>
\* `if name:` - None and the empty string are both false
Truthy(opt) == opt # NoFilter /\ opt[1] # <<>>

\* f"%{name}%"
Contains(str) == <<"%">> \o str \o <<"%">>

\* the WHERE clause of get_contacts without the owner: filter_by(user=current_user) left out
Selected_AnyOwner(c, name, surname, email, current_user) ==
    /\ Truthy(name) => ilike(c.name, Contains(name[1]))
    /\ Truthy(surname) => ilike(c.surname, Contains(surname[1]))
    /\ Truthy(email) => ilike(c.email, Contains(email[1]))

\* the WHERE clause of get_contacts: filter_by(user=current_user) and one ilike
\* filter for each argument that is given
Selected(c, name, surname, email, current_user) ==
    /\ c.user = current_user
    /\ Truthy(name) => ilike(c.name, Contains(name[1]))
    /\ Truthy(surname) => ilike(c.surname, Contains(surname[1]))
    /\ Truthy(email) => ilike(c.email, Contains(email[1]))

\* the orders in which the store may return a set of rows (the statement has no
\* ORDER BY)
Orderings(rows) ==
    {o \in [1..Cardinality(rows) -> rows] : \A i, j \in DOMAIN o : o[i] = o[j] => i = j}

Min(a, b) == IF a <= b THEN a ELSE b

\* OFFSET offset LIMIT limit applied to the selected rows in the store's order
Page(ordered, limit, offset) ==
    SubSeq(ordered, offset + 1, Min(Len(ordered), offset + limit))

\* get_contacts: every list the call may return
get_contacts(table, limit, offset, name, surname, email, current_user) ==
    {Page(o, limit, offset) :
        o \in Orderings({c \in table : Selected(c, name, surname, email, current_user)})}

ListResult(rows) == [kind |-> "List", rows |-> rows]
Pending == [kind |-> "Pending"]

\* messages.CONTACTS_NOT_FOUND, the detail of the routes' 404
CONTACTS_NOT_FOUND == "contacts not found"

\* a route returning its value: 200 with the value as the body
Response(body) == [kind |-> "Response", status_code |-> 200, body |-> body]

\* the routes' answer with the emptiness test left out: always return contacts
contacts_or_404_AlwaysReturns(rows) == Response(rows)

\* if contacts: return contacts
\* else: raise HTTPException(status_code=404, detail=messages.CONTACTS_NOT_FOUND)
contacts_or_404(rows) ==
    IF rows # <<>> THEN Response(rows) ELSE HTTPException(404, CONTACTS_NOT_FOUND)

\* the emails of the rows a list call reads, by id
ListEmails == <<<<"a", "@", "x">>, <<"B", "@", "x">>, <<"c", "@", "x">>, <<"d", "@", "x">>>>

ListRow(id, user, person) ==
    [id |-> id, user |-> user, name |-> person.name, surname |-> person.surname,
     email |-> ListEmails[id], phone |-> <<"1">>, birthday |-> Date(2024, 1, 2)]

\* tables of at most MaxRows rows with distinct ids and distinct emails
ListTableS ==
    {{ListRow(i, ch[i][1], ch[i][2]) : i \in {k \in 1..MaxRows : ch[k][1] # 0}} :
        ch \in [1..MaxRows -> (Users \cup {0}) \X PersonS]}

NameFilterS == {NoFilter, Some(<<>>), Some(<<"j">>), Some(<<"O">>), Some(<<"_">>)}
SurnameFilterS == {NoFilter, Some(<<"E">>)}
EmailFilterS == {NoFilter, Some(<<"b", "@">>), Some(<<"x">>)}

\* a list call about to be made on some table
InitList ==
    /\ contacts \in ListTableS
    /\ nextId = MaxRows + 1
    /\ req = <<>>
    /\ NoAuth
    /\ \E u \in Users, limit \in 0..MaxLimit, offset \in 0..MaxOffset,
          name \in NameFilterS, surname \in SurnameFilterS, email \in EmailFilterS :
          last = [op |-> "get_contacts", user |-> u, limit |-> limit, offset |-> offset,
                  name |-> name, surname |-> surname, email |-> email,
                  res |-> Pending, http |-> Pending, before |-> contacts]

GetContacts ==
    /\ last.op = "get_contacts"
    /\ last.res = Pending
    /\ \E rows \in get_contacts(contacts, last.limit, last.offset, last.name,
                                 last.surname, last.email, last.user) :
          last' = [last EXCEPT !.res = ListResult(rows), !.http = contacts_or_404(rows)]
    /\ UNCHANGED <<contacts, nextId, req, auth>>

NextList == GetContacts

SpecList == InitList /\ [][NextList]_vars

\* C1: get_contacts called for a user never returns a contact owned by another
\* user, whatever the stored contacts, limit, offset and filters.
C1_ListReturnsOnlyOwnContacts ==
    (last.op = "get_contacts" /\ last.res.kind = "List")
    => \A k \in 1..Len(last.res.rows) :
          /\ last.res.rows[k].user = last.user
          /\ last.res.rows[k] \in contacts

\* a filtered list came back non-empty while another user's contact passes the
\* same filters
C1_Witness ==
    /\ last.op = "get_contacts"
    /\ last.res.kind = "List"
    /\ Len(last.res.rows) >= 1
    /\ Truthy(last.name)
    /\ \E c \in contacts :
          /\ c.user # last.user
          /\ c.name = last.res.rows[1].name

\* `part` occurs in `str` as a run of consecutive characters, letter case ignored
IsSubstringCI(part, str) ==
    \E i \in 0..Len(str) :
        /\ i + Len(part) <= Len(str)
        /\ Lower(SubSeq(str, i + 1, i + Len(part))) = Lower(part)

\* every filter that is given is a case-insensitive substring of its field
MatchesFilters(c, name, surname, email) ==
    /\ name # NoFilter => IsSubstringCI(name[1], c.name)
    /\ surname # NoFilter => IsSubstringCI(surname[1], c.surname)
    /\ email # NoFilter => IsSubstringCI(email[1], c.email)

Max(a, b) == IF a >= b THEN a ELSE b

\* C19: get_contacts(limit, offset, name, surname, email) for user U returns only
\* contacts of U in which every provided filter is a case-insensitive substring of
\* the corresponding field, no contact twice; of the matching contacts of U it
\* skips `offset` and returns at most `limit` of the rest, so that the number
\* returned is min(limit, max(0, matching - offset)).
C19_SubstringFilterThenPage ==
    (last.op = "get_contacts" /\ last.res.kind = "List")
    => LET rows == last.res.rows
           matching == {c \in contacts :
                           /\ c.user = last.user
                           /\ MatchesFilters(c, last.name, last.surname, last.email)}
       IN  /\ \A k \in 1..Len(rows) : rows[k] \in matching
           /\ \A j, k \in 1..Len(rows) : rows[j] = rows[k] => j = k
           /\ Len(rows) = Min(last.limit, Max(0, Cardinality(matching) - last.offset))

-----------------------------------------------------------------------------
(* get_upcoming_birthdays *)

IsLeap(y) == (y % 4 = 0 /\ y % 100 # 0) \/ y % 400 = 0

DaysInMonth(y, m) ==
    CASE m \in {4, 6, 9, 11} -> 30
      [] m = 2 -> IF IsLeap(y) THEN 29 ELSE 28
      [] OTHER -> 31

NextDay(d) ==
    IF d.day < DaysInMonth(d.year, d.month) THEN Date(d.year, d.month, d.day + 1)
    ELSE IF d.month < 12 THEN Date(d.year, d.month + 1, 1)
    ELSE Date(d.year + 1, 1, 1)

\* date + timedelta(days=n)
RECURSIVE AddDays(_, _)
AddDays(d, n) == IF n = 0 THEN d ELSE AddDays(NextDay(d), n - 1)

WindowDays == 7

\* the filter with today itself left out of the first branch (> for >=)
UpcomingFilter_AfterToday(birthday, today) ==
    LET next_week == AddDays(today, WindowDays)
    IN  \/ /\ birthday.month = today.month
           /\ birthday.day > today.day
        \/ /\ birthday.month = next_week.month
           /\ birthday.day <= next_week.day

\* the filter with its second branch (the month of next_week) left out
UpcomingFilter_TodayMonthOnly(birthday, today) ==
    /\ birthday.month = today.month
    /\ birthday.day >= today.day

\* or_(and_(month == month(today), day >= day(today)),
\*     and_(month == month(next_week), day <= day(next_week)))
UpcomingFilter(birthday, today) ==
    LET next_week == AddDays(today, WindowDays)
    IN  \/ /\ birthday.month = today.month
           /\ birthday.day >= today.day
        \/ /\ birthday.month = next_week.month
           /\ birthday.day <= next_week.day

\* get_upcoming_birthdays with date.today() = today: every list the call may return
get_upcoming_birthdays(table, today, current_user) ==
    Orderings({c \in table : UpcomingFilter(c.birthday, today) /\ c.user = current_user})

DatesOfYear(y) ==
    {dt \in [year : {y}, month : 1..12, day : 1..31] : dt.day <= DaysInMonth(y, dt.month)}

\* the current dates and the birthdays the birthday query is run on
TodayS == DatesOfYear(2023) \cup DatesOfYear(2024)     \* a common year and a leap year
BirthdayDomain == DatesOfYear(2024)

BirthdayRow(id, user, birthday) ==
    [id |-> id, user |-> user, name |-> <<"a">>, surname |-> <<"e">>,
     email |-> ListEmails[id], phone |-> <<"1">>, birthday |-> birthday]

\* one contact of either user with any birthday, alone or beside a contact of
\* user 1 born on 20 December
BirthdayTableS ==
    {{BirthdayRow(1, u, b)} \cup extra :
        u \in Users, b \in BirthdayDomain,
        extra \in {{}, {BirthdayRow(2, 1, Date(2024, 12, 20))}}}

\* a birthday query about to be made by user 1 on some day
InitBirthday ==
    /\ contacts \in BirthdayTableS
    /\ nextId = 3
    /\ req = <<>>
    /\ NoAuth
    /\ \E today \in TodayS :
          last = [op |-> "get_upcoming_birthdays", user |-> 1, today |-> today,
                  res |-> Pending, http |-> Pending, before |-> contacts]

GetUpcomingBirthdays ==
    /\ last.op = "get_upcoming_birthdays"
    /\ last.res = Pending
    /\ \E rows \in get_upcoming_birthdays(contacts, last.today, last.user) :
          last' = [last EXCEPT !.res = ListResult(rows), !.http = contacts_or_404(rows)]
    /\ UNCHANGED <<contacts, nextId, req, auth>>

NextBirthday == GetUpcomingBirthdays

SpecBirthday == InitBirthday /\ [][NextBirthday]_vars

Listed(res) == {res.rows[k] : k \in 1..Len(res.rows)}

\* C10: on 2024-12-28 get_upcoming_birthdays returns the caller's contact born on
\* 2024-01-02 and does not return the caller's contact born on 2024-12-20.
C10_December28 ==
    (/\ last.op = "get_upcoming_birthdays"
     /\ last.res.kind = "List"
     /\ last.today = Date(2024, 12, 28))
    => \A c \in contacts :
          c.user = last.user =>
              /\ c.birthday = Date(2024, 1, 2) => c \in Listed(last.res)
              /\ c.birthday = Date(2024, 12, 20) => c \notin Listed(last.res)

\* the query of 28 December has returned the contact of 2 January and left out
\* the one of 20 December
C10_Witness ==
    /\ last.op = "get_upcoming_birthdays"
    /\ last.res.kind = "List"
    /\ last.today = Date(2024, 12, 28)
    /\ \E c, d \in contacts :
          /\ c.user = last.user /\ c.birthday = Date(2024, 1, 2)
          /\ d.user = last.user /\ d.birthday = Date(2024, 12, 20)
          /\ Listed(last.res) = {c}

\* either query about to be made: the list route or the birthday route
InitQueries == InitList \/ InitBirthday

NextQueries == GetContacts \/ GetUpcomingBirthdays

SpecQueries == InitQueries /\ [][NextQueries]_vars

\* C17: get_contacts and get_upcoming_birthdays return a collection, empty when
\* nothing matches and never an error; the list route and the birthday route
\* answer 404 "contacts not found" exactly when that collection is empty and
\* answer 200 with the collection as the body otherwise.
C17_EmptyListIs404 ==
    (last.op \in {"get_contacts", "get_upcoming_birthdays"} /\ last.res # Pending)
    => /\ last.res.kind = "List"
       /\ (last.res.rows = <<>>) <=> (last.http = HTTPException(404, CONTACTS_NOT_FOUND))
       /\ (last.res.rows # <<>>)
              <=> (last.http = [kind |-> "Response", status_code |-> 200,
                                body |-> last.res.rows])

\* a birthday query found nothing although the caller has a contact, and was
\* answered 404
C17_Witness ==
    /\ last.op = "get_upcoming_birthdays"
    /\ last.res = ListResult(<<>>)
    /\ last.http.kind = "HTTPException"
    /\ last.http.status_code = 404
    /\ \E c \in contacts : c.user = last.user

\* the month and day of `birthday` are those of one of the days today .. today+7
WithinWindow(birthday, today) ==
    \E k \in 0..7 :
        /\ AddDays(today, k).month = birthday.month
        /\ AddDays(today, k).day = birthday.day

\* C11: every contact get_upcoming_birthdays returns has a birthday whose month and
\* day fall on one of the days from today to today+7; a contact outside that
\* window (one born earlier in the current month, say) is never returned.
C11_ReturnedAreWithinWindow ==
    (last.op = "get_upcoming_birthdays" /\ last.res.kind = "List")
    => \A c \in Listed(last.res) : WithinWindow(c.birthday, last.today)

\* C20: every contact of the caller whose birthday's month and day fall on one of
\* the days from today to today+7 is returned, whether the window stays in one
\* month or crosses into the next month or year.
C20_WindowIsReturned ==
    (last.op = "get_upcoming_birthdays" /\ last.res.kind = "List")
    => \A c \in contacts :
          (c.user = last.user /\ WithinWindow(c.birthday, last.today))
          => c \in Listed(last.res)

\* a query whose window crosses into the next month has returned a contact born
\* on the last day of the window
C20_Witness ==
    /\ last.op = "get_upcoming_birthdays"
    /\ last.res.kind = "List"
    /\ AddDays(last.today, 7).month # last.today.month
    /\ \E c \in Listed(last.res) :
          /\ c.birthday.month = AddDays(last.today, 7).month
          /\ c.birthday.day = AddDays(last.today, 7).day

-----------------------------------------------------------------------------
(* Properties of the repository functions, checked under Spec.  `last` is   *)
(* the call that led to the current state and last.before the table it saw. *)

IsCall(op) == last.op = op
Owns(table, id, user) == \E c \in table : c.id = id /\ c.user = user
RowsOf(table, id) == {c \in table : c.id = id}
SameFields(row, body) ==
    /\ row.name = body.name
    /\ row.surname = body.surname
    /\ row.email = body.email
    /\ row.phone = body.phone
    /\ row.birthday = body.birthday

\* C2: get_contact, update_contact and delete_contact called with an id that is
\* not a contact of the caller (no such id, or another user's contact) return
\* None and leave every stored contact unchanged.
C2_NotOwnedIsAbsentAndUntouched ==
    (/\ last.op \in {"get_contact", "update_contact", "delete_contact"}
     /\ ~Owns(last.before, last.id, last.user))
    => (last.res = None /\ contacts = last.before)

\* an update aimed at another user's contact came back None and left it as it was
C2_Witness ==
    /\ IsCall("update_contact")
    /\ \E c \in last.before : c.id = last.id /\ c.user # last.user
    /\ last.res = None
    /\ \E c \in contacts : c.id = last.id /\ ~SameFields(c, last.body)

\* C3: the owner of a contact never changes: a row that stays keeps its owner and
\* its id, a new row is owned by the user whose create_contact inserted it and has
\* an id never used before, and update_contact leaves the (id, owner) pairs as
\* they were.
C3_OwnerNeverChanges ==
    /\ \A c \in contacts : c.id < nextId
    /\ last.op # "idle" =>
        /\ \A c \in last.before, d \in contacts : c.id = d.id => c.user = d.user
        /\ \A d \in contacts :
              RowsOf(last.before, d.id) = {} =>
                  /\ IsCall("create_contact")
                  /\ d.user = last.user
                  /\ d.id = nextId - 1
                  /\ \A c \in last.before : c.id < d.id
        /\ IsCall("update_contact") =>
              {<<c.id, c.user>> : c \in contacts} = {<<c.id, c.user>> : c \in last.before}

\* user 2 has updated a contact of theirs while user 1 holds one too
C3_Witness ==
    /\ IsCall("update_contact")
    /\ last.user = 2
    /\ last.res.kind = "Contact"
    /\ last.res.row # CHOOSE c \in last.before : c.id = last.id
    /\ \E c \in contacts : c.user = 1

\* C4: after a create_contact that returned a contact with id i, get_contact(i) by
\* the same user returns a contact equal to the submitted body on name, surname,
\* email, phone and birthday.
C4_CreateThenGet ==
    (IsCall("create_contact") /\ last.res.kind = "Contact")
    => LET got == get_contact(contacts, nextId, last.res.row.id, last.user).res
       IN  /\ got.kind = "Contact"
           /\ SameFields(got.row, last.body)
           /\ SameFields(last.res.row, last.body)

\* a second contact has been created
C4_Witness ==
    /\ IsCall("create_contact")
    /\ last.res.kind = "Contact"
    /\ last.res.row.id = 2
    /\ Cardinality(contacts) = 2

FullReplace ==
    /\ last.res.kind = "Contact"
    /\ SameFields(last.res.row, last.body)
    /\ \E c \in contacts : c.id = last.id /\ SameFields(c, last.body)
    /\ LET got == get_contact(contacts, nextId, last.id, last.user).res
       IN  got.kind = "Contact" /\ SameFields(got.row, last.body)

EmailTakenByOther(table, id, email) == \E c \in table : c.id # id /\ c.email = email

\* C5 as stated: update_contact on a contact the caller owns is a full replace:
\* the stored row and a following get_contact carry exactly the submitted fields.
C5_UpdateIsFullReplace ==
    (IsCall("update_contact") /\ Owns(last.before, last.id, last.user))
    => FullReplace

\* C5 amended: update_contact on a contact the caller owns is a full replace when
\* the submitted email is not the email of another stored contact; when it is, the
\* call raises the store's integrity error and no stored contact changes.
C5_UpdateIsFullReplaceUnlessEmailTaken ==
    (IsCall("update_contact") /\ Owns(last.before, last.id, last.user))
    => IF EmailTakenByOther(last.before, last.id, last.body.email)
       THEN /\ last.res = Raised(IntegrityErrorText)
            /\ contacts = last.before
       ELSE /\ FullReplace
            /\ \A c \in last.before : c.id # last.id => c \in contacts

\* an update has changed all five fields of a contact
C5_Witness ==
    /\ IsCall("update_contact")
    /\ last.res.kind = "Contact"
    /\ \E c \in last.before :
          /\ c.id = last.id
          /\ c.name # last.body.name
          /\ c.surname # last.body.surname
          /\ c.email # last.body.email
          /\ c.phone # last.body.phone
          /\ c.birthday # last.body.birthday

\* C6: delete_contact on a contact the caller owns removes that row and returns it
\* as it was; get_contact of the id by the owner is then None, and every other
\* stored contact is still there, unchanged.
C6_DeleteRemovesOnlyThatContact ==
    (IsCall("delete_contact") /\ Owns(last.before, last.id, last.user))
    => /\ last.res.kind = "Contact"
       /\ last.res.row \in last.before
       /\ last.res.row.id = last.id
       /\ contacts = last.before \ {last.res.row}
       /\ get_contact(contacts, nextId, last.id, last.user).res = None

\* a contact has been deleted while another contact stays
C6_Witness ==
    /\ IsCall("delete_contact")
    /\ last.res.kind = "Contact"
    /\ last.res.row \notin contacts
    /\ contacts # {}

\* C7: create_contact with the email of an already stored contact, of any owner,
\* fails with the store's constraint violation (surfaced as HTTP 500), and the
\* stored contacts are exactly those from before the call.
C7_DuplicateEmailCreateFails ==
    (IsCall("create_contact") /\ \E c \in last.before : c.email = last.body.email)
    => /\ last.res = HTTPException(500, IntegrityErrorText)
       /\ contacts = last.before

\* a create with the email of another user's contact has failed
C7_Witness ==
    /\ IsCall("create_contact")
    /\ last.res.kind = "HTTPException"
    /\ \E c \in last.before : c.email = last.body.email /\ c.user # last.user

\* the texts the store's errors carry
StoreErrorTexts == {IntegrityErrorText, StaleDataErrorText, OperationalErrorText}

\* C18: when a write to the store fails (create_contact on an email already
\* stored), the failure the caller receives is generic: its detail is not the
\* text of the store's error.
C18_FailureDetailIsGeneric ==
    (IsCall("create_contact") /\ last.res.kind = "HTTPException")
    => last.res.detail \notin StoreErrorTexts

-----------------------------------------------------------------------------
(* Properties of concurrent requests, checked under SpecConc *)

\* C8: in every state reached by interleaved create, update and delete requests
\* of any users, no two stored contacts have the same email (nor the same id).
C8_EmailUniqueSystemWide ==
    \A c, d \in contacts : (c.email = d.email \/ c.id = d.id) => c = d

\* two requests have finished, one with a stored contact and the other refused by
\* the unique index, and the table holds the one row ever inserted
C8_Witness ==
    /\ req[1].pc = "done"
    /\ req[2].pc = "done"
    /\ req[1].res = HTTPException(500, IntegrityErrorText)
    /\ req[2].res.kind = "Contact"
    /\ nextId = 2
    /\ contacts = {req[2].res.row}

Finishes(w) == req[w].pc \in {"added", "selected"} /\ req'[w].pc = "done"

\* C9: a create, update or delete that ends in an error (the store failed at some
\* step of it) has left the stored contacts exactly as they were.
C9_FailedWriteChangesNothing ==
    [][\A w \in Workers :
          (Finishes(w) /\ req'[w].res.kind \in {"HTTPException", "Raised"})
          => contacts' = contacts]_vars

-----------------------------------------------------------------------------
(* Authentication: Token Service, Password Hasher, Credential Store, Session *)
(* Cache and Auth Gate                                                       *)

MaxNow == 2         \* the clock runs from 0 to MaxNow

\* the lifetimes of the three token kinds: access short, email medium, refresh long
AccessTTL == 1
EmailTTL == 2
RefreshTTL == 3

Scopes == {"access", "refresh", "email"}

TTL(scope) ==
    CASE scope = "access" -> AccessTTL
      [] scope = "email" -> EmailTTL
      [] scope = "refresh" -> RefreshTTL

\* a token: the claims subject, issued-at, expiry and discriminator, and whether
\* the signature over them is the service's
Token(sub, iat, exp, scope, signed) ==
    [sub |-> sub, iat |-> iat, exp |-> exp, scope |-> scope, signed |-> signed]

create_token(subject, scope, t) == Token(subject, t, t + TTL(scope), scope, TRUE)

create_access_token(subject, t) == create_token(subject, "access", t)
create_refresh_token(subject, t) == create_token(subject, "refresh", t)
create_email_token(subject, t) == create_token(subject, "email", t)

Err(name) == [kind |-> name]
InvalidToken == Err("InvalidToken")
Unauthorized == Err("Unauthorized")
InvalidEmail == Err("InvalidEmail")
InvalidPassword == Err("InvalidPassword")
NotConfirmed == Err("NotConfirmed")
AccountExists == Err("AccountExists")

Subject(sub) == [kind |-> "Subject", sub |-> sub]

\* decode that does not look at the discriminator
decode_AnyScope(token, expected, t) ==
    IF ~token.signed \/ t >= token.exp THEN InvalidToken
    ELSE Subject(token.sub)

\* decode(token, expected_discriminator): the subject, or InvalidToken if the
\* signature is invalid, the token expired or the discriminator another one
decode(token, expected, t) ==
    IF ~token.signed THEN InvalidToken
    ELSE IF t >= token.exp THEN InvalidToken
    ELSE IF token.scope # expected THEN InvalidToken
    ELSE Subject(token.sub)

\* Password Hasher: one-way hash and its verification
PasswordS == {"p", "q"}
get_password_hash(password) == <<"hash", password>>
verify_password(plain, hashed) == get_password_hash(plain) = hashed

\* a user record of the Credential Store
User(email, hashed, confirmed, refresh_token) ==
    [email |-> email, password |-> hashed, confirmed |-> confirmed,
     refresh_token |-> refresh_token]

\* Credential Store: look-up by email and the update of the stored refresh token
get_user_by_email(us, email) == us[email]
update_token(us, email, token) == [us EXCEPT ![email].refresh_token = token]

TokenPair(access, refresh_) ==
    [kind |-> "TokenPair", access_token |-> access, refresh_token |-> refresh_]
Authenticated(user) == [kind |-> "User", user |-> user]

\* what an Auth Gate operation leaves behind and returns
AuthOutcome(us, ca, minted, replaced, res) ==
    [users |-> us, cache |-> ca, minted |-> minted, replaced |-> replaced, res |-> res]

\* the refresh token a new one takes the place of, if there is one
Replaced(us, email, token) ==
    IF us[email].refresh_token # None /\ us[email].refresh_token # token
    THEN {us[email].refresh_token} ELSE {}

\* signup: a new, unconfirmed user and the confirmation token mailed to it; an
\* email already registered is refused
signup(us, ca, email, password, t) ==
    IF get_user_by_email(us, email) # None
    THEN AuthOutcome(us, ca, {}, {}, AccountExists)
    ELSE AuthOutcome([us EXCEPT ![email] =
                         User(email, get_password_hash(password), FALSE, None)],
                     ca, {create_email_token(email, t)}, {},
                     [kind |-> "Created", email |-> email])

\* the confirmation token sets the confirmed flag of its subject
confirmed_email(us, ca, token, t) ==
    LET d == decode(token, "email", t)
    IN  IF d = InvalidToken THEN AuthOutcome(us, ca, {}, {}, InvalidToken)
        ELSE IF get_user_by_email(us, d.sub) = None
             THEN AuthOutcome(us, ca, {}, {}, InvalidToken)
        ELSE AuthOutcome([us EXCEPT ![d.sub].confirmed = TRUE], ca, {}, {},
                         [kind |-> "Confirmed", email |-> d.sub])

\* login with the confirmed flag not looked at
login_NoConfirmedCheck(us, ca, email, password, t) ==
    LET user == get_user_by_email(us, email)
        access == create_access_token(email, t)
        refresh_ == create_refresh_token(email, t)
    IN  IF user = None THEN AuthOutcome(us, ca, {}, {}, InvalidEmail)
        ELSE IF ~verify_password(password, user.password)
             THEN AuthOutcome(us, ca, {}, {}, InvalidPassword)
        ELSE AuthOutcome(update_token(us, email, refresh_), ca, {access, refresh_},
                         Replaced(us, email, refresh_), TokenPair(access, refresh_))

\* login with the password not verified
login_NoPasswordCheck(us, ca, email, password, t) ==
    LET user == get_user_by_email(us, email)
        access == create_access_token(email, t)
        refresh_ == create_refresh_token(email, t)
    IN  IF user = None THEN AuthOutcome(us, ca, {}, {}, InvalidEmail)
        ELSE IF ~user.confirmed THEN AuthOutcome(us, ca, {}, {}, NotConfirmed)
        ELSE AuthOutcome(update_token(us, email, refresh_), ca, {access, refresh_},
                         Replaced(us, email, refresh_), TokenPair(access, refresh_))

\* login(email, password): InvalidEmail if no such user, NotConfirmed if the user
\* is not confirmed, InvalidPassword if the hash does not match; otherwise an
\* access/refresh pair, the refresh token stored on the user record
login(us, ca, email, password, t) ==
    LET user == get_user_by_email(us, email)
        access == create_access_token(email, t)
        refresh_ == create_refresh_token(email, t)
    IN  IF user = None THEN AuthOutcome(us, ca, {}, {}, InvalidEmail)
        ELSE IF ~user.confirmed THEN AuthOutcome(us, ca, {}, {}, NotConfirmed)
        ELSE IF ~verify_password(password, user.password)
             THEN AuthOutcome(us, ca, {}, {}, InvalidPassword)
        ELSE AuthOutcome(update_token(us, email, refresh_), ca, {access, refresh_},
                         Replaced(us, email, refresh_), TokenPair(access, refresh_))

\* refresh with the token on file not compared
refresh_token_NoStoredCheck(us, ca, token, t) ==
    LET d == decode(token, "refresh", t)
        user == get_user_by_email(us, d.sub)
        access == create_access_token(d.sub, t)
        refresh_ == create_refresh_token(d.sub, t)
    IN  IF d = InvalidToken THEN AuthOutcome(us, ca, {}, {}, InvalidToken)
        ELSE IF user = None THEN AuthOutcome(us, ca, {}, {}, Unauthorized)
        ELSE AuthOutcome(update_token(us, d.sub, refresh_), ca, {access, refresh_},
                         Replaced(us, d.sub, refresh_), TokenPair(access, refresh_))

\* refresh_token(token): a new access/refresh pair, stored like login's, or
\* Unauthorized if the token is not the one on file for its subject
refresh_token(us, ca, token, t) ==
    LET d == decode(token, "refresh", t)
        user == get_user_by_email(us, d.sub)
        access == create_access_token(d.sub, t)
        refresh_ == create_refresh_token(d.sub, t)
    IN  IF d = InvalidToken THEN AuthOutcome(us, ca, {}, {}, InvalidToken)
        ELSE IF user = None THEN AuthOutcome(us, ca, {}, {}, Unauthorized)
        ELSE IF user.refresh_token # token THEN AuthOutcome(us, ca, {}, {}, Unauthorized)
        ELSE AuthOutcome(update_token(us, d.sub, refresh_), ca, {access, refresh_},
                         Replaced(us, d.sub, refresh_), TokenPair(access, refresh_))

\* Session Cache: get(key) of a cache that answers (get_works) or always misses;
\* set(key, value) that is best-effort
cache_get(ca, key, get_works) == IF get_works THEN ca[key] ELSE None
cache_set(ca, key, value, set_works) ==
    IF set_works THEN [ca EXCEPT ![key] = value] ELSE ca

\* authenticate that answers with what the cache holds after its write
authenticate_ReadsBack(us, ca, token, t, get_works, set_works) ==
    LET d == decode(token, "access", t)
        hit == cache_get(ca, d.sub, get_works)
        user == get_user_by_email(us, d.sub)
        written == cache_set(ca, d.sub, user, set_works)
    IN  IF d = InvalidToken THEN AuthOutcome(us, ca, {}, {}, Unauthorized)
        ELSE IF hit # None THEN AuthOutcome(us, ca, {}, {}, Authenticated(hit))
        ELSE IF user = None THEN AuthOutcome(us, ca, {}, {}, Unauthorized)
        ELSE IF written[d.sub] = None THEN AuthOutcome(us, written, {}, {}, Unauthorized)
        ELSE AuthOutcome(us, written, {}, {}, Authenticated(written[d.sub]))

\* authenticate(bearer_token): decode expecting "access"; on a cache hit the
\* cached user; on a miss the stored user (Unauthorized if absent), cached
\* best-effort
authenticate(us, ca, token, t, get_works, set_works) ==
    LET d == decode(token, "access", t)
        hit == cache_get(ca, d.sub, get_works)
        user == get_user_by_email(us, d.sub)
    IN  IF d = InvalidToken THEN AuthOutcome(us, ca, {}, {}, Unauthorized)
        ELSE IF hit # None THEN AuthOutcome(us, ca, {}, {}, Authenticated(hit))
        ELSE IF user = None THEN AuthOutcome(us, ca, {}, {}, Unauthorized)
        ELSE AuthOutcome(us, cache_set(ca, d.sub, user, set_works), {}, {},
                         Authenticated(user))

-----------------------------------------------------------------------------
(* SpecAuth: signup, confirmation, login and refresh requests served one at a *)
(* time while the clock advances                                              *)

NoToken == [none |-> TRUE]

\* the tokens a client can present: those minted so far, and copies of them
\* that do not carry the service's signature
Presentable == issued \cup {[tk EXCEPT !.signed = FALSE] : tk \in issued}

AuthCall(op, email, password, token, out) ==
    /\ users' = out.users
    /\ cache' = out.cache
    /\ issued' = issued \cup out.minted
    /\ superseded' = superseded \cup out.replaced
    /\ last' = [op |-> op, email |-> email, password |-> password, token |-> token,
                res |-> out.res, minted |-> out.minted, before |-> users,
                revoked |-> superseded, at |-> now]
    /\ UNCHANGED <<contacts, nextId, req, now>>

Signup ==
    \E e \in AuthEmails, p \in PasswordS :
        AuthCall("signup", e, p, NoToken, signup(users, cache, e, p, now))

ConfirmedEmail ==
    \E tk \in Presentable :
        AuthCall("confirmed_email", tk.sub, "", tk, confirmed_email(users, cache, tk, now))

Login ==
    \E e \in AuthEmails, p \in PasswordS :
        AuthCall("login", e, p, NoToken, login(users, cache, e, p, now))

RefreshToken ==
    \E tk \in Presentable :
        AuthCall("refresh_token", tk.sub, "", tk, refresh_token(users, cache, tk, now))

\* time passes
Tick ==
    /\ now < MaxNow
    /\ now' = now + 1
    /\ UNCHANGED <<contacts, nextId, req, last, users, cache, issued, superseded>>

InitAuth ==
    /\ contacts = {}
    /\ nextId = 1
    /\ last = Idle
    /\ req = <<>>
    /\ NoAuth

NextAuth == Signup \/ ConfirmedEmail \/ Login \/ RefreshToken \/ Tick

SpecAuth == InitAuth /\ [][NextAuth]_vars

\* C12: for every (email, password) whose user exists with confirmed = false,
\* login fails with NotConfirmed, whether the password is the right one or not;
\* no access or refresh token is minted and no refresh token is stored for that
\* user (no user record changes).
C12_UnconfirmedLoginFails ==
    (/\ last.op = "login"
     /\ last.before[last.email] # None
     /\ ~last.before[last.email].confirmed)
    => /\ last.res = NotConfirmed
       /\ last.minted = {}
       /\ users = last.before
       /\ users[last.email].refresh_token = None

\* an unconfirmed user has logged in with the right password and been refused
C12_Witness ==
    /\ last.op = "login"
    /\ last.before[last.email] # None
    /\ ~last.before[last.email].confirmed
    /\ verify_password(last.password, last.before[last.email].password)
    /\ last.res = NotConfirmed

\* C13: login(email, password) fails with InvalidEmail when no user has that
\* email and with InvalidPassword when the user is confirmed and the password
\* does not match the stored hash; for a confirmed user and a matching password
\* it returns an access token and a refresh token minted for that email and
\* stores that refresh token on the user's record; a failed login changes no
\* user record.
C13_LoginOutcomes ==
    last.op = "login"
    => LET user == last.before[last.email]
           ok == /\ user # None
                 /\ user.confirmed
                 /\ verify_password(last.password, user.password)
       IN  /\ user = None => last.res = InvalidEmail
           /\ (user # None /\ user.confirmed
                 /\ ~verify_password(last.password, user.password))
              => last.res = InvalidPassword
           /\ ok => /\ last.res.kind = "TokenPair"
                    /\ decode(last.res.access_token, "access", last.at)
                           = Subject(last.email)
                    /\ decode(last.res.refresh_token, "refresh", last.at)
                           = Subject(last.email)
                    /\ last.minted = {last.res.access_token, last.res.refresh_token}
                    /\ users = [last.before EXCEPT
                                  ![last.email].refresh_token = last.res.refresh_token]
           /\ ~ok => /\ last.res.kind # "TokenPair"
                     /\ users = last.before

\* a confirmed user has logged in a second time and the record holds the new
\* refresh token
C13_Witness ==
    /\ last.op = "login"
    /\ last.res.kind = "TokenPair"
    /\ last.before[last.email].refresh_token # None
    /\ last.before[last.email].refresh_token # last.res.refresh_token
    /\ users[last.email].refresh_token = last.res.refresh_token

\* C15: once the refresh token stored for a user has been replaced by the token
\* of a later login or refresh, every refresh call presenting the earlier token,
\* still unexpired and correctly signed, fails with Unauthorized, mints no token
\* and changes no user record.
C15_SupersededRefreshTokenIsRefused ==
    (/\ last.op = "refresh_token"
     /\ last.token \in last.revoked
     /\ last.token.signed
     /\ last.at < last.token.exp)
    => /\ last.res = Unauthorized
       /\ last.minted = {}
       /\ users = last.before

\* a refresh token replaced by a later login has been presented, unexpired, and
\* refused
C15_Witness ==
    /\ last.op = "refresh_token"
    /\ last.token \in last.revoked
    /\ last.token.signed
    /\ last.at < last.token.exp
    /\ last.before[last.email].refresh_token # None
    /\ last.res = Unauthorized

-----------------------------------------------------------------------------
(* SpecGate: one decode, authenticate or refresh call on any token, store and *)
(* cache                                                                      *)

\* the tokens that can exist at time t: any subject and kind, minted at t or
\* before, signed by the service or not
TokenS(t) ==
    {Token(e, iat, iat + TTL(k), k, sg) :
        e \in AuthEmails, iat \in 0..t, k \in Scopes, sg \in BOOLEAN}

\* the records the store can hold for an email at time t
UserS(e, t) ==
    {User(e, get_password_hash("p"), c, rt) :
        c \in BOOLEAN, rt \in {None} \cup {create_refresh_token(e, iat) : iat \in 0..t}}

\* a store, and a cache holding snapshots of users of that store
StoreS(t) == {us \in [AuthEmails -> UNION {UserS(e, t) \cup {None} : e \in AuthEmails}] :
                \A e \in AuthEmails : us[e] # None => us[e].email = e}
CacheS(us) ==
    {ca \in [AuthEmails -> {None} \cup {User(e, get_password_hash("p"), c, None) :
                                          e \in AuthEmails, c \in BOOLEAN}] :
        \A e \in AuthEmails :
            ca[e] # None => /\ ca[e].email = e
                            /\ us[e] # None
                            /\ ca[e].confirmed => us[e].confirmed}

GateCommon ==
    /\ contacts = {}
    /\ nextId = 1
    /\ req = <<>>
    /\ now \in 0..MaxNow
    /\ issued = {}
    /\ superseded = {}

\* a decode about to be made
InitDecode ==
    /\ GateCommon
    /\ users = [e \in AuthEmails |-> None]
    /\ cache = [e \in AuthEmails |-> None]
    /\ \E tk \in TokenS(now), expected \in Scopes :
          last = [op |-> "decode", token |-> tk, expected |-> expected,
                  res |-> Pending, before |-> users, at |-> now]

\* an authenticate call about to be made; the cache answers or always misses,
\* and its write succeeds or not
InitAuthenticate ==
    /\ GateCommon
    /\ users \in {us \in StoreS(0) : \A e \in AuthEmails : us[e] # None => us[e].refresh_token = None}
    /\ cache \in CacheS(users)
    /\ \E tk \in TokenS(now), get_works \in BOOLEAN, set_works \in BOOLEAN :
          last = [op |-> "authenticate", token |-> tk, get_works |-> get_works,
                  set_works |-> set_works, res |-> Pending, before |-> users,
                  at |-> now]

\* a refresh call about to be made
InitRefresh ==
    /\ GateCommon
    /\ users \in StoreS(now)
    /\ cache = [e \in AuthEmails |-> None]
    /\ \E tk \in TokenS(now) :
          last = [op |-> "refresh_token", token |-> tk, res |-> Pending,
                  before |-> users, at |-> now]

GateDone(out) ==
    /\ users' = out.users
    /\ cache' = out.cache
    /\ issued' = issued \cup out.minted
    /\ superseded' = superseded \cup out.replaced
    /\ last' = [last EXCEPT !.res = out.res]
    /\ UNCHANGED <<contacts, nextId, req, now>>

Decode ==
    /\ last.op = "decode"
    /\ last.res = Pending
    /\ GateDone(AuthOutcome(users, cache, {}, {}, decode(last.token, last.expected, now)))

Authenticate ==
    /\ last.op = "authenticate"
    /\ last.res = Pending
    /\ GateDone(authenticate(users, cache, last.token, now, last.get_works, last.set_works))

RefreshPresented ==
    /\ last.op = "refresh_token"
    /\ last.res = Pending
    /\ GateDone(refresh_token(users, cache, last.token, now))

InitGate == InitDecode \/ InitAuthenticate \/ InitRefresh

NextGate == Decode \/ Authenticate \/ RefreshPresented

SpecGate == InitGate /\ [][NextGate]_vars

GateCall(op) == last.op = op /\ last.res # Pending

\* C14: for every token kind k in {access, refresh, email} and every expected
\* discriminator d other than k, decoding a token minted as k while expecting d
\* fails with InvalidToken; refresh accepts no token that is not a refresh token
\* (an access token in particular) and authenticate accepts no token that is not
\* an access token (a refresh token in particular); the refused refresh changes
\* no user record and mints no token.
C14_WrongDiscriminatorIsRefused ==
    /\ (GateCall("decode") /\ last.token.scope # last.expected)
       => last.res = InvalidToken
    /\ (GateCall("refresh_token") /\ last.token.scope # "refresh")
       => /\ last.res.kind # "TokenPair"
          /\ users = last.before
          /\ issued = {}
    /\ (GateCall("authenticate") /\ last.token.scope # "access")
       => last.res = Unauthorized

\* a signed, unexpired access token has been decoded as a refresh token and
\* refused
C14_Witness ==
    /\ GateCall("decode")
    /\ last.token.scope = "access"
    /\ last.token.signed
    /\ last.at < last.token.exp
    /\ last.expected = "refresh"
    /\ last.res = InvalidToken

\* C16: with a cache whose get always misses, authenticate with a valid access
\* token returns the user the Credential Store holds for the token's subject and
\* rejects when the store holds none, whether or not the cache write succeeds.
C16_CorrectWithCacheMissing ==
    (/\ GateCall("authenticate")
     /\ ~last.get_works
     /\ decode(last.token, "access", last.at) # InvalidToken)
    => last.res = IF last.before[last.token.sub] = None THEN Unauthorized
                  ELSE Authenticated(last.before[last.token.sub])

\* the cache neither answered nor took the write, and the stored user was
\* returned
C16_Witness ==
    /\ GateCall("authenticate")
    /\ ~last.get_works
    /\ ~last.set_works
    /\ last.res.kind = "User"
    /\ last.res.user = users[last.token.sub]
    /\ cache[last.token.sub] = None

-----------------------------------------------------------------------------
(* user_agent_ban_middleware *)

\* user_agent_ban_list = [r"Googlebot", r"Python-urllib"]
user_agent_ban_list ==
    << <<"G", "o", "o", "g", "l", "e", "b", "o", "t">>,
       <<"P", "y", "t", "h", "o", "n", "-", "u", "r", "l", "l", "i", "b">> >>

\* request.headers.get("user-agent"): <<>> is None (no such header), <<s>> the
\* header's value s
NoHeader == <<>>

TypeErrorText == "TypeError: expected string or bytes-like object, got 'NoneType'"

\* the pattern, which has no metacharacter, matches at position k of the string
MatchesAt(pattern, str, k) ==
    /\ k + Len(pattern) - 1 <= Len(str)
    /\ \A j \in 1..Len(pattern) : str[k + j - 1] = pattern[j]

\* re.search(pattern, string): scans the positions of the string from the left;
\* a string argument that is None raises TypeError
RECURSIVE scan(_, _, _)
scan(pattern, str, k) ==
    IF k > Len(str) + 1 THEN FALSE
    ELSE IF MatchesAt(pattern, str, k) THEN TRUE
    ELSE scan(pattern, str, k + 1)

re_search(pattern, user_agent) ==
    IF user_agent = NoHeader THEN [kind |-> "TypeError"]
    ELSE [kind |-> "searched", found |-> scan(pattern, user_agent[1], 1)]

\* JSONResponse(status_code=403, content={"detail": "You are banned"})
JSONResponse(status, detail) ==
    [kind |-> "JSONResponse", status_code |-> status, detail |-> detail]

\* what the middleware did: its response or exception, and whether call_next ran
Handled(res, called) == [res |-> res, called |-> called]

\* for ban_pattern in user_agent_ban_list: if re.search(...): return 403
\* response = await call_next(request); return response
RECURSIVE ban_loop(_, _, _)
ban_loop(k, user_agent, downstream) ==
    IF k > Len(user_agent_ban_list) THEN Handled(downstream, TRUE)
    ELSE LET m == re_search(user_agent_ban_list[k], user_agent)
         IN  IF m.kind = "TypeError" THEN Handled(Raised(TypeErrorText), FALSE)
             ELSE IF m.found THEN Handled(JSONResponse(403, "You are banned"), FALSE)
             ELSE ban_loop(k + 1, user_agent, downstream)

user_agent_ban_middleware(user_agent, downstream) == ban_loop(1, user_agent, downstream)

\* the User-Agent values requests arrive with: a product name, alone or between
\* other text, and no header at all
AgentCoreS ==
    {user_agent_ban_list[1], user_agent_ban_list[2],
     <<"g", "o", "o", "g", "l", "e", "b", "o", "t">>,
     <<"P", "y", "t", "h", "o", "n", "-", "u", "r", "l", "l", "i">>,
     <<"c", "u", "r", "l">>, <<>>}
AgentPrefixS == {<<>>, <<"M", "/", "5", " ">>}
AgentSuffixS == {<<>>, <<"/", "3">>}
UserAgentS ==
    {NoHeader} \cup {Some(p \o c \o x) : p \in AgentPrefixS, c \in AgentCoreS, x \in AgentSuffixS}

\* the responses the downstream handler may give
DownstreamS ==
    {Response(<<>>), HTTPException(404, CONTACTS_NOT_FOUND),
     HTTPException(500, IntegrityErrorText), HTTPException(401, "Unauthorized")}

\* a request about to pass the middleware
InitMiddleware ==
    /\ contacts = {}
    /\ nextId = 1
    /\ req = <<>>
    /\ NoAuth
    /\ \E ua \in UserAgentS, d \in DownstreamS :
          last = [op |-> "user_agent_ban_middleware", user_agent |-> ua,
                  downstream |-> d, res |-> Pending, called |-> FALSE]

UserAgentBanMiddleware ==
    /\ last.op = "user_agent_ban_middleware"
    /\ last.res = Pending
    /\ LET h == user_agent_ban_middleware(last.user_agent, last.downstream)
       IN  last' = [last EXCEPT !.res = h.res, !.called = h.called]
    /\ UNCHANGED <<contacts, nextId, req, auth>>

NextMiddleware == UserAgentBanMiddleware

SpecMiddleware == InitMiddleware /\ [][NextMiddleware]_vars

\* the text `part` occurs in the text `str`, letter case respected
Occurs(part, str) ==
    \E i \in 0..Len(str) :
        /\ i + Len(part) <= Len(str)
        /\ SubSeq(str, i + 1, i + Len(part)) = part

\* the request carries a User-Agent in which Googlebot or Python-urllib occurs
Banned(user_agent) ==
    /\ user_agent # NoHeader
    /\ \E k \in 1..Len(user_agent_ban_list) : Occurs(user_agent_ban_list[k], user_agent[1])

\* C21: the middleware answers 403 "You are banned" without invoking the
\* downstream handler when the request's User-Agent matches a banned pattern
\* (Googlebot, Python-urllib); every other request, one without a User-Agent
\* header included, is passed to the downstream handler and that handler's
\* response is returned.
C21_BannedOrPassedOn ==
    (last.op = "user_agent_ban_middleware" /\ last.res # Pending)
    => IF Banned(last.user_agent)
       THEN /\ last.res = JSONResponse(403, "You are banned")
            /\ ~last.called
       ELSE /\ last.called
            /\ last.res = last.downstream

====
